---- MODULE Spec2Model ----
(***************************************************************************)
(* Model of the live-stream capture orchestrator of assets/ytbot.py:       *)
(* the tick task (MonitorService.start / ManualMonitorService.start and    *)
(* VideoProcessor.process_new_videos), the ingest queue and its drain task *)
(* (VideoQueue.add_video / VideoQueue.process_queue), scheduled by one     *)
(* asyncio event loop whose ready queue is FIFO.                           *)
(***************************************************************************)
EXTENDS Integers, Sequences, FiniteSets, TLC

\* ------------------------------------------------------------------ bounds
NumVideos == 2
MaxTicks == 3
MaxTime == 1
MaxDrains == 2

MaxTokenSteps == 4
NumUrls == 4
LowRate == 2
MaxQueued == 1
MaxSignals == 2
MaxProbes == 2
MaxSaves == 3
PipeCap == 2
MaxChunks == 2

\* ------------------------------------------------------- program constants
MAX_RETRIES == 3
\* the expiry margin of TokenManager._load_token, in seconds
EXPIRY_MARGIN == 300
RATE_LIMIT == 5
CHUNK_SIZE == 3

\* encodings of a release_timestamp key that is missing / present with None
TsAbsent == -1
TsNone == -2
TsNullStr == -3

Videos == 1..NumVideos
DrainIds == 1..MaxDrains
NoVideo == 0
TickTask == 0
Times == 0..MaxTime
\* datetime.fromtimestamp accepts timestamps up to DatetimeMax (year 9999)
DatetimeMax == MaxTime + 1
ReleaseValues == {TsNone, TsAbsent} \cup (0..(DatetimeMax + 1))
RC == {0, 1}
EmptyMap == [v \in {} |-> 0]

VARIABLES
    mode,                       \* "db": MonitorService, "manual": ManualMonitorService
    first_iteration,
    old_video_ids_memory,       \* Seen (in memory)
    notified_video_ids_memory,  \* Notified (in memory): video id -> timestamp
    dbOld,                      \* table old_video_ids
    dbNotified,                 \* table notified_video_ids
    tickPc,                     \* position of the tick task
    tickNo,                     \* number of probes completed
    new_videos, pending, cur, videos_to_notify,  \* locals of process_new_videos
    now,                        \* int(time.time())
    queue,                      \* VideoQueue.queue
    processing,                 \* VideoQueue.processing
    drainPc,                    \* position of each process_queue task
    is_ingesting,               \* local of each process_queue task
    ready,                      \* the event loop's FIFO of runnable tasks
    addCount,                   \* history: add_video calls per video
    added,                      \* history: the URLs passed to add_video, in call order
    jobs,                       \* history: the jobs popped by a drain, in order
    futureSeen, lateSeen, addedAfterFuture,  \* history of dispatch branches
    disp,                       \* one call of _handle_video_status: arguments and result
    fn                          \* one call of a function checked on its own: arguments and result

vars == <<mode, first_iteration, old_video_ids_memory, notified_video_ids_memory,
          dbOld, dbNotified, tickPc, tickNo, new_videos, pending, cur,
          videos_to_notify, now, queue, processing, drainPc, is_ingesting,
          ready, addCount, added, jobs, futureSeen, lateSeen, addedAfterFuture, disp, fn>>

\* what the scheduling of the tick and the drain never changes
fixedVars == <<mode, disp, fn>>

tickLocals == <<new_videos, pending, cur, videos_to_notify>>
storeVars == <<old_video_ids_memory, notified_video_ids_memory, dbOld, dbNotified>>
queueVars == <<queue, processing, drainPc, is_ingesting, jobs>>
histVars == <<addCount, added, futureSeen, lateSeen, addedAfterFuture>>

\* ----------------------------------------------------------------- helpers
Merge(f, g) == [x \in (DOMAIN f) \cup (DOMAIN g) |-> IF x \in DOMAIN g THEN g[x] ELSE f[x]]

Min(a, b) == IF a <= b THEN a ELSE b

InReady(t) == \E i \in 1..Len(ready) : ready[i] = t

\* ------------------------------------------------ metadata and classifier
Infos == [isLiveNow : BOOLEAN, is_live : BOOLEAN, upcoming : BOOLEAN,
          was_live : BOOLEAN, release_timestamp : ReleaseValues]

\* info.get("release_timestamp", 0)
ReleaseGet(info) == IF info.release_timestamp = TsAbsent THEN 0 ELSE info.release_timestamp

\* VideoProcessor._classify_video_status; "TypeError" when None or a string is
\* compared with an int
ClassifyVideoStatus(info, t) ==
    IF info.isLiveNow /\ info.was_live THEN "live"
    ELSE IF info.upcoming THEN
        IF info.release_timestamp \in {TsNone, TsNullStr} THEN "TypeError"
        ELSE IF ReleaseGet(info) > t THEN "upcoming_scheduled"
        ELSE "upcoming_pre_launch"
    ELSE IF info.is_live THEN "live_VOD"
    ELSE "VOD"

\* metadata.get("release_timestamp", 0) or 0
PublishedTimestamp(info) ==
    IF info.release_timestamp \in {TsAbsent, TsNone} THEN 0 ELSE info.release_timestamp

\* datetime.fromtimestamp(ts) raises for a timestamp beyond year 9999
FromTimestampRaises(ts) == ts > DatetimeMax

EnqueueStatuses == {"upcoming_pre_launch", "live", "live_VOD", "VOD"}

\* VideoProcessor._handle_video_status: the branch taken, whether the log line's
\* datetime.fromtimestamp raises, whether add_video is called, the return value
HandleVideoStatus(status, published_timestamp, current_timestamp) ==
    IF status = "upcoming_scheduled" THEN
        IF published_timestamp > current_timestamp
        THEN [branch |-> "future", raises |-> FromTimestampRaises(published_timestamp),
              enqueue |-> FALSE, ret |-> FALSE]
        ELSE [branch |-> "late", raises |-> FromTimestampRaises(published_timestamp),
              enqueue |-> FALSE, ret |-> TRUE]
    ELSE IF status \in EnqueueStatuses
        THEN [branch |-> "enqueue", raises |-> FALSE, enqueue |-> TRUE, ret |-> TRUE]
        ELSE [branch |-> "ignored", raises |-> FALSE, enqueue |-> FALSE, ret |-> FALSE]

EnqueueStatusesV3 == {"upcoming_pre_launch", "live", "VOD"}

\* VideoProcessor._handle_video_status of ytbot_youtube_data_api_v3.py
HandleVideoStatusV3(status, published_timestamp, current_timestamp) ==
    IF status = "upcoming_scheduled" THEN
        IF published_timestamp > current_timestamp
        THEN [branch |-> "future", raises |-> FromTimestampRaises(published_timestamp),
              enqueue |-> FALSE, ret |-> FALSE]
        ELSE [branch |-> "late", raises |-> FromTimestampRaises(published_timestamp),
              enqueue |-> FALSE, ret |-> TRUE]
    ELSE IF status \in EnqueueStatusesV3
        THEN [branch |-> "enqueue", raises |-> FALSE, enqueue |-> TRUE, ret |-> TRUE]
        ELSE [branch |-> "ignored", raises |-> FALSE, enqueue |-> FALSE, ret |-> FALSE]

\* the closed set of broadcast states, in the code's spelling
Statuses == {"live", "upcoming_launched", "upcoming_scheduled", "upcoming_pre_launch",
             "live_VOD", "VOD"}

\* ------------------------------------------------------------------- store
\* mutant: the probe's IDs replace the in-memory Seen set
SeenAssign(old, ids) == ids

\* self.old_video_ids_memory.update(ids)
SeenUpdate(old, ids) == old \cup ids

\* mutant: the statement inserts no row
SaveOldNothing(table, ids) == table

\* DatabaseManager.save_old_video_ids: INSERT OR IGNORE
SaveOld(table, ids) == table \cup ids

\* mutant: INSERT OR IGNORE, a stored row keeps its timestamp
SaveNotifiedIgnore(table, m) == Merge(m, table)

\* DatabaseManager.save_notified_video_ids: INSERT OR REPLACE
SaveNotified(table, m) == Merge(table, m)

\* the stores a previous run can have left behind
StoredVideos == {1}
InitStores == {s \in [old : SUBSET StoredVideos, notified : SUBSET StoredVideos] :
                 s.notified \subseteq s.old}

\* ------------------------------------------------------------------- queue
\* mutant: add_video creates a drain task without testing `processing`
SpawnDrainAlways == TRUE

\* VideoQueue.add_video: `if not self.processing`
SpawnDrain == ~processing

FreeDrains == {d \in DrainIds : drainPc[d] = "none"}
NewDrain == CHOOSE d \in FreeDrains : \A e \in FreeDrains : d <= e

\* the loop head of process_queue, `while not self.queue.empty()`, and the exit
\* through APIManager.__aexit__, whose session.close() may or may not suspend
LoopHead(q, suspends) ==
    IF q # <<>> THEN [pc |-> "status", processing |-> TRUE]
    ELSE IF suspends THEN [pc |-> "closing", processing |-> TRUE]
    ELSE [pc |-> "none", processing |-> FALSE]

\* ------------------------------------------------------------- event loop
TickRunning == tickPc = "saved1"

CanRun(t) == ~TickRunning /\ ready # <<>> /\ Head(ready) = t

TickSuspended == tickPc \in {"probe", "sleep", "fetch"}
DrainSuspended(d) == drainPc[d] \in {"status", "sleep_busy", "sleep_err", "stream", "closing"}

\* ------------------------------------------------------------------ Init
NoDispatch == [variant |-> "none", status |-> "none", published |-> 0, current |-> 0,
               phase |-> "idle", ret |-> FALSE, raised |-> FALSE]

MainInit ==
    /\ mode \in {"db", "manual"}
    /\ \E s \in InitStores :
         /\ (mode = "manual") => (s.old = {})
         /\ dbOld = s.old
         /\ dbNotified = [v \in s.notified |-> 0]
         \* VideoProcessor.load_data
         /\ old_video_ids_memory = s.old
         /\ notified_video_ids_memory = [v \in s.notified |-> 0]
    /\ first_iteration = TRUE
    /\ tickPc = "probe"
    /\ tickNo = 0
    /\ new_videos = {} /\ pending = {} /\ cur = NoVideo /\ videos_to_notify = EmptyMap
    /\ now = 0
    /\ queue = <<>>
    /\ processing = FALSE
    /\ drainPc = [d \in DrainIds |-> "none"]
    /\ is_ingesting = [d \in DrainIds |-> FALSE]
    /\ ready = <<>>
    /\ addCount = [v \in Videos |-> 0]
    /\ added = <<>>
    /\ jobs = <<>>
    /\ futureSeen = {} /\ lateSeen = {} /\ addedAfterFuture = {}

NoCall == [phase |-> "idle"]

Init == MainInit /\ disp = NoDispatch /\ fn = NoCall

\* ------------------------------------------------------------ wake-ups
\* an awaited external event (network reply, timer, thread, child exit) completes
WakeTick ==
    /\ ~TickRunning /\ TickSuspended /\ ~InReady(TickTask)
    /\ (tickPc = "sleep") => (tickNo < MaxTicks)
    /\ ready' = Append(ready, TickTask)
    /\ UNCHANGED <<fixedVars, first_iteration, storeVars, tickPc, tickNo, tickLocals, now,
                   queueVars, histVars>>

WakeDrain(d) ==
    /\ ~TickRunning /\ DrainSuspended(d) /\ ~InReady(d)
    /\ ready' = Append(ready, d)
    /\ UNCHANGED <<fixedVars, first_iteration, storeVars, tickPc, tickNo, tickLocals, now,
                   queueVars, histVars>>

\* --------------------------------------------------------------- the tick
\* mutant: the URL is put at the head of the queue
QueuePutFront(q, url) == <<url>> \o q

\* await self.queue.put(video_url) on the unbounded asyncio.Queue
QueuePut(q, url) == Append(q, url)

\* VideoProcessor.save_data
SaveDataOld(old) == IF mode = "db" THEN SaveOld(dbOld, old) ELSE dbOld
SaveDataNotified(notif) == IF mode = "db" THEN SaveNotified(dbNotified, notif) ELSE dbNotified

\* mutant: the first iteration is handled like every other one
IsFirstIterationNever == FALSE

\* `if first_iteration:` of MonitorService.start / ManualMonitorService.start
IsFirstIteration == first_iteration

\* the tick resumes from asyncio.sleep(SLEEP_INTERVAL) and calls monitor_tabs
TickSleepDone ==
    /\ CanRun(TickTask) /\ tickPc = "sleep"
    /\ ready' = Tail(ready)
    /\ tickPc' = "probe"
    /\ \E t \in now..MaxTime : now' = t
    /\ UNCHANGED <<fixedVars, first_iteration, storeVars, tickNo, tickLocals, queueVars, histVars>>

\* monitor_tabs returns ids; first iteration seeds Seen, later ones diff against it
TickProbeDone ==
    /\ CanRun(TickTask) /\ tickPc = "probe"
    /\ ready' = Tail(ready)
    /\ tickNo' = tickNo + 1
    /\ \E ids \in SUBSET Videos :
         IF IsFirstIteration THEN
            /\ old_video_ids_memory' = SeenUpdate(old_video_ids_memory, ids)
            /\ dbOld' = SaveDataOld(old_video_ids_memory')
            /\ dbNotified' = SaveDataNotified(notified_video_ids_memory)
            /\ first_iteration' = FALSE
            /\ tickPc' = "sleep"
            /\ UNCHANGED <<notified_video_ids_memory, tickLocals>>
         ELSE LET nv == ids \ old_video_ids_memory IN
            IF nv = {} THEN
               /\ tickPc' = "sleep"
               /\ UNCHANGED <<first_iteration, storeVars, tickLocals>>
            ELSE
               \* process_new_videos: the first fetch_and_classify_video_metadata
               /\ \E v \in nv : cur' = v /\ pending' = nv \ {v}
               /\ new_videos' = nv
               /\ videos_to_notify' = EmptyMap
               /\ tickPc' = "fetch"
               /\ UNCHANGED <<first_iteration, storeVars>>
    /\ UNCHANGED <<fixedVars, now, queueVars, histVars>>

\* what fetch_and_classify_video_metadata can return at time t for some metadata:
\* None (no info, a download error, or the classifier's TypeError), or the
\* status with the record's published timestamp
FetchResults(t) ==
    {[fetched |-> FALSE, status |-> "none", published |-> 0]} \cup
    {[fetched |-> ClassifyVideoStatus(info, t) # "TypeError",
      status |-> ClassifyVideoStatus(info, t),
      published |-> PublishedTimestamp(info)] : info \in Infos}

\* asyncio.to_thread(extract_info) returns for video cur: classify, dispatch,
\* then fetch the next video or persist
TickFetchDone ==
    /\ CanRun(TickTask) /\ tickPc = "fetch"
    /\ \E t1 \in now..MaxTime : \E r \in FetchResults(t1) :
       \E t2 \in t1..Min(t1 + 1, MaxTime) :
         LET fetched == r.fetched
             h == HandleVideoStatus(r.status, r.published, t2)
             raised == fetched /\ h.raises
             enq == fetched /\ ~raised /\ h.enqueue
             spawn == enq /\ SpawnDrain
             vtn == IF fetched /\ ~raised /\ h.ret
                    THEN Merge(videos_to_notify, [v \in {cur} |-> t2])
                    ELSE videos_to_notify
         IN /\ now' = t2
            /\ spawn => FreeDrains # {}
            /\ futureSeen' = IF fetched /\ h.branch = "future"
                             THEN futureSeen \cup {cur} ELSE futureSeen
            /\ lateSeen' = IF fetched /\ h.branch = "late"
                           THEN lateSeen \cup {cur} ELSE lateSeen
            \* VideoQueue.add_video
            /\ queue' = IF enq THEN QueuePut(queue, cur) ELSE queue
            /\ addCount' = IF enq THEN [addCount EXCEPT ![cur] = @ + 1] ELSE addCount
            /\ added' = IF enq THEN Append(added, cur) ELSE added
            /\ addedAfterFuture' = IF enq /\ cur \in futureSeen
                                   THEN addedAfterFuture \cup {cur} ELSE addedAfterFuture
            /\ drainPc' = IF spawn THEN [drainPc EXCEPT ![NewDrain] = "created"] ELSE drainPc
            /\ ready' = IF spawn THEN Append(Tail(ready), NewDrain) ELSE Tail(ready)
            /\ IF raised THEN
                  \* the exception leaves process_new_videos; start() logs and sleeps
                  /\ tickPc' = "sleep"
                  /\ new_videos' = {} /\ pending' = {} /\ cur' = NoVideo
                  /\ videos_to_notify' = EmptyMap
                  /\ UNCHANGED storeVars
               ELSE IF pending # {} THEN
                  /\ \E v \in pending : cur' = v /\ pending' = pending \ {v}
                  /\ videos_to_notify' = vtn
                  /\ tickPc' = "fetch"
                  /\ UNCHANGED <<new_videos, storeVars>>
               ELSE IF vtn # EmptyMap THEN
                  \* notified_video_ids_memory.update(videos_to_notify); save_data()
                  /\ notified_video_ids_memory' = Merge(notified_video_ids_memory, vtn)
                  /\ dbOld' = SaveDataOld(old_video_ids_memory)
                  /\ dbNotified' = SaveDataNotified(notified_video_ids_memory')
                  /\ videos_to_notify' = vtn
                  /\ cur' = NoVideo
                  /\ tickPc' = "saved1"
                  /\ UNCHANGED <<old_video_ids_memory, new_videos, pending>>
               ELSE
                  \* old_video_ids_memory.update(new_videos); save_data()
                  /\ old_video_ids_memory' = SeenUpdate(old_video_ids_memory, new_videos)
                  /\ dbOld' = SaveDataOld(old_video_ids_memory')
                  /\ dbNotified' = SaveDataNotified(notified_video_ids_memory)
                  /\ tickPc' = "sleep"
                  /\ new_videos' = {} /\ pending' = {} /\ cur' = NoVideo
                  /\ videos_to_notify' = EmptyMap
                  /\ UNCHANGED notified_video_ids_memory
    /\ UNCHANGED <<fixedVars, first_iteration, tickNo, processing, is_ingesting, jobs>>

\* the second half of process_new_videos' tail: Seen is updated and saved
TickPersistSeen ==
    /\ tickPc = "saved1"
    /\ old_video_ids_memory' = SeenUpdate(old_video_ids_memory, new_videos)
    /\ dbOld' = SaveDataOld(old_video_ids_memory')
    /\ dbNotified' = SaveDataNotified(notified_video_ids_memory)
    /\ tickPc' = "sleep"
    /\ new_videos' = {} /\ pending' = {} /\ cur' = NoVideo
    /\ videos_to_notify' = EmptyMap
    /\ UNCHANGED <<fixedVars, first_iteration, notified_video_ids_memory, tickNo, now,
                   queueVars, ready, histVars>>

\* -------------------------------------------------------------- the drain
\* process_queue starts: processing = True, then the loop head
DrainStart(d) ==
    /\ CanRun(d) /\ drainPc[d] = "created"
    /\ ready' = Tail(ready)
    /\ \E suspends \in BOOLEAN :
         LET h == LoopHead(queue, suspends) IN
           /\ drainPc' = [drainPc EXCEPT ![d] = h.pc]
           /\ processing' = h.processing
    /\ UNCHANGED <<fixedVars, first_iteration, storeVars, tickPc, tickNo, tickLocals, now,
                   queue, is_ingesting, jobs, histVars>>

\* mutant: an exception in the loop body leaves the loop
AfterExceptionExit == "closing"

\* `except Exception`: log, asyncio.sleep(30), back to the loop head
AfterException == "sleep_err"

\* mutant: the queue hands out its newest item
QueueGetNewest(q) == [item |-> q[Len(q)], rest |-> SubSeq(q, 1, Len(q) - 1)]

\* asyncio.Queue.get on a non-empty queue: the oldest item
QueueGet(q) == [item |-> Head(q), rest |-> Tail(q)]

\* get_ingest_status returns: busy -> sleep 30 s; free -> pop and start_stream
DrainStatusDone(d) ==
    /\ CanRun(d) /\ drainPc[d] = "status"
    /\ ready' = Tail(ready)
    /\ \E busy \in BOOLEAN, found \in BOOLEAN :
         /\ is_ingesting' = [is_ingesting EXCEPT ![d] = busy]
         /\ IF busy THEN
               /\ drainPc' = [drainPc EXCEPT ![d] = "sleep_busy"]
               /\ UNCHANGED <<queue, jobs>>
            ELSE IF queue = <<>> THEN
               \* queue.get() on an empty queue blocks
               /\ drainPc' = [drainPc EXCEPT ![d] = "blocked"]
               /\ UNCHANGED <<queue, jobs>>
            ELSE
               /\ queue' = QueueGet(queue).rest
               /\ jobs' = Append(jobs, [url |-> QueueGet(queue).item, drain |-> d,
                                        busy |-> busy, attempts |-> 1,
                                        state |-> IF found THEN "running" ELSE "raised"])
               \* _get_executable found nothing: StreamManagerError, caught by the loop
               /\ drainPc' = [drainPc EXCEPT ![d] = IF found THEN "stream" ELSE AfterException]
    /\ UNCHANGED <<fixedVars, first_iteration, storeVars, tickPc, tickNo, tickLocals, now,
                   processing, histVars>>

\* `success = (streamlink_rc == 0 and ffmpeg_rc == 0)`
Success(rcS, rcF) == rcS = 0 /\ rcF = 0

RunningJob(d) == CHOOSE i \in 1..Len(jobs) : jobs[i].drain = d /\ jobs[i].state = "running"

\* start_stream ends: it returns (streamlink_rc, ffmpeg_rc) or raises StreamManagerError
DrainStreamDone(d) ==
    /\ CanRun(d) /\ drainPc[d] = "stream"
    /\ ready' = Tail(ready)
    /\ \E raises \in BOOLEAN, rcS \in RC, rcF \in RC, suspends \in BOOLEAN :
         IF raises THEN
            /\ jobs' = [jobs EXCEPT ![RunningJob(d)].state = "raised"]
            /\ drainPc' = [drainPc EXCEPT ![d] = AfterException]
            /\ UNCHANGED processing
         ELSE
            LET h == LoopHead(queue, suspends) IN
            \* success = (streamlink_rc == 0 and ffmpeg_rc == 0); no retry either way
            /\ jobs' = [jobs EXCEPT ![RunningJob(d)].state =
                                        IF Success(rcS, rcF) THEN "success" ELSE "failed"]
            /\ drainPc' = [drainPc EXCEPT ![d] = h.pc]
            /\ processing' = h.processing
    /\ UNCHANGED <<fixedVars, first_iteration, storeVars, tickPc, tickNo, tickLocals, now,
                   queue, is_ingesting, histVars>>

\* asyncio.sleep(30) is over (after a busy status or after an exception): loop head
DrainSleepDone(d) ==
    /\ CanRun(d) /\ drainPc[d] \in {"sleep_busy", "sleep_err"}
    /\ ready' = Tail(ready)
    /\ \E suspends \in BOOLEAN :
         LET h == LoopHead(queue, suspends) IN
           /\ drainPc' = [drainPc EXCEPT ![d] = h.pc]
           /\ processing' = h.processing
    /\ UNCHANGED <<fixedVars, first_iteration, storeVars, tickPc, tickNo, tickLocals, now,
                   queue, is_ingesting, jobs, histVars>>

\* session.close() is over: processing = False and the task ends
DrainCloseDone(d) ==
    /\ CanRun(d) /\ drainPc[d] = "closing"
    /\ ready' = Tail(ready)
    /\ drainPc' = [drainPc EXCEPT ![d] = "none"]
    /\ processing' = FALSE
    /\ UNCHANGED <<fixedVars, first_iteration, storeVars, tickPc, tickNo, tickLocals, now,
                   queue, is_ingesting, jobs, histVars>>

Next ==
    \/ WakeTick
    \/ TickSleepDone
    \/ TickProbeDone
    \/ TickFetchDone
    \/ TickPersistSeen
    \/ \E d \in DrainIds : WakeDrain(d)
    \/ \E d \in DrainIds : DrainStart(d)
    \/ \E d \in DrainIds : DrainStatusDone(d)
    \/ \E d \in DrainIds : DrainStreamDone(d)
    \/ \E d \in DrainIds : DrainSleepDone(d)
    \/ \E d \in DrainIds : DrainCloseDone(d)

Spec == Init /\ [][Next]_vars

\* ---------------------------------------------- dispatch, one call at a time
\* _handle_video_status called for video 1 with every status of the closed set
DispatchInputs ==
    [variant : {"ytbot", "v3"}, status : Statuses, published : 0..(DatetimeMax + 1),
     current : Times, phase : {"call"}, ret : {FALSE}, raised : {FALSE}]

InitDispatch == MainInit /\ disp \in DispatchInputs /\ fn = NoCall

DispatchCall ==
    /\ disp.phase = "call"
    /\ LET h == IF disp.variant = "ytbot"
                THEN HandleVideoStatus(disp.status, disp.published, disp.current)
                ELSE HandleVideoStatusV3(disp.status, disp.published, disp.current)
           enq == h.enqueue /\ ~h.raises
           spawn == enq /\ SpawnDrain
       IN /\ disp' = [disp EXCEPT !.phase = "done", !.ret = h.ret /\ ~h.raises,
                                  !.raised = h.raises]
          /\ queue' = IF enq THEN Append(queue, 1) ELSE queue
          /\ addCount' = IF enq THEN [addCount EXCEPT ![1] = @ + 1] ELSE addCount
          /\ added' = IF enq THEN Append(added, 1) ELSE added
          /\ drainPc' = IF spawn THEN [drainPc EXCEPT ![NewDrain] = "created"] ELSE drainPc
          /\ ready' = IF spawn THEN Append(ready, NewDrain) ELSE ready
    /\ UNCHANGED <<mode, fn, first_iteration, storeVars, tickPc, tickNo, tickLocals, now,
                   processing, is_ingesting, jobs, futureSeen, lateSeen, addedAfterFuture>>

NextDispatch == DispatchCall

SpecDispatch == InitDispatch /\ [][NextDispatch]_vars

\* --------------------------------- ytbot_youtube_data_api_v3.py: tick and drain
\* liveBroadcastContent and liveStreamingDetails.scheduledStartTime of a videos().list item
InfosV3 == [content : {"live", "upcoming", "none"},
            scheduled : {TsAbsent} \cup (0..DatetimeMax)]

\* VideoProcessor._classify_video_status(live_broadcast_content, live_details)
ClassifyVideoStatusV3(info, t) ==
    IF info.content = "live" THEN "live"
    ELSE IF info.content = "upcoming" THEN
        IF info.scheduled # TsAbsent /\ info.scheduled # 0
        THEN (IF info.scheduled > t THEN "upcoming_scheduled" ELSE "upcoming_pre_launch")
        ELSE "upcoming_pre_launch"
    ELSE "VOD"

\* fetch_and_classify_video_metadata: None (no items, an exception) or the
\* status with meta_dict["release_timestamp"]
FetchResultsV3(t) ==
    {[fetched |-> FALSE, status |-> "none", published |-> 0]} \cup
    {[fetched |-> TRUE, status |-> ClassifyVideoStatusV3(info, t),
      published |-> IF info.scheduled = TsAbsent THEN 0 ELSE info.scheduled] : info \in InfosV3}

\* the orders in which `for video_id in new_videos` can visit a set
Orders(S) == {o \in [1..Cardinality(S) -> S] : \A i, j \in DOMAIN o : o[i] = o[j] => i = j}

\* the free task slots, lowest first
FreeSeq == CHOOSE o \in Orders(FreeDrains) : \A i, j \in DOMAIN o : i < j => o[i] < o[j]

\* monitor_tabs returns; the first iteration seeds Seen, a later one runs
\* process_new_videos to its end: request.execute() is a blocking call, so no
\* other task runs between two add_video calls of one pass
TickProbeDoneV3 ==
    /\ CanRun(TickTask) /\ tickPc = "probe"
    /\ tickNo' = tickNo + 1
    /\ tickPc' = "sleep"
    /\ \E ids \in SUBSET Videos :
         IF IsFirstIteration THEN
            /\ old_video_ids_memory' = SeenUpdate(old_video_ids_memory, ids)
            /\ dbOld' = SaveDataOld(old_video_ids_memory')
            /\ dbNotified' = SaveDataNotified(notified_video_ids_memory)
            /\ first_iteration' = FALSE
            /\ ready' = Tail(ready)
            /\ UNCHANGED <<notified_video_ids_memory, now, queue, drainPc, histVars>>
         ELSE LET nv == ids \ old_video_ids_memory IN
            \E t \in now..MaxTime : \E order \in Orders(nv) : \E res \in [nv -> FetchResultsV3(t)] :
              LET Handled(v) == HandleVideoStatusV3(res[v].status, res[v].published, t)
                  Enq(v) == res[v].fetched /\ Handled(v).enqueue
                  enqs == SelectSeq(order, Enq)
                  vtn == [v \in {w \in nv : res[w].fetched /\ Handled(w).ret} |-> t]
                  \* every add_video of the pass tests the same `processing`
                  spawned == IF SpawnDrain THEN Len(enqs) ELSE 0
              IN /\ spawned <= Cardinality(FreeDrains)
                 /\ now' = t
                 /\ queue' = queue \o enqs
                 /\ added' = added \o enqs
                 /\ addCount' = [v \in Videos |-> IF v \in nv /\ Enq(v)
                                                   THEN addCount[v] + 1 ELSE addCount[v]]
                 /\ futureSeen' = futureSeen \cup
                        {v \in nv : res[v].fetched /\ Handled(v).branch = "future"}
                 /\ lateSeen' = lateSeen \cup
                        {v \in nv : res[v].fetched /\ Handled(v).branch = "late"}
                 /\ addedAfterFuture' = addedAfterFuture \cup
                        {v \in nv \cap futureSeen : Enq(v)}
                 /\ drainPc' = [d \in DrainIds |->
                                  IF \E i \in 1..spawned : FreeSeq[i] = d
                                  THEN "created" ELSE drainPc[d]]
                 /\ ready' = Tail(ready) \o SubSeq(FreeSeq, 1, spawned)
                 /\ notified_video_ids_memory' = Merge(notified_video_ids_memory, vtn)
                 /\ old_video_ids_memory' = SeenUpdate(old_video_ids_memory, nv)
                 /\ dbOld' = SaveDataOld(old_video_ids_memory')
                 /\ dbNotified' = SaveDataNotified(notified_video_ids_memory')
                 /\ UNCHANGED first_iteration
    /\ UNCHANGED <<fixedVars, tickLocals, processing, is_ingesting, jobs>>

\* get_ingest_status returns: busy -> sleep 30 s; free -> pop and start_streamlink
DrainStatusDoneV3(d) ==
    /\ CanRun(d) /\ drainPc[d] = "status"
    /\ ready' = Tail(ready)
    /\ \E busy \in BOOLEAN :
         /\ is_ingesting' = [is_ingesting EXCEPT ![d] = busy]
         /\ IF busy THEN
               /\ drainPc' = [drainPc EXCEPT ![d] = "sleep_busy"]
               /\ UNCHANGED <<queue, jobs>>
            ELSE IF queue = <<>> THEN
               \* queue.get() on an empty queue blocks
               /\ drainPc' = [drainPc EXCEPT ![d] = "blocked"]
               /\ UNCHANGED <<queue, jobs>>
            ELSE
               /\ queue' = QueueGet(queue).rest
               /\ jobs' = Append(jobs, [url |-> QueueGet(queue).item, drain |-> d,
                                        busy |-> busy, attempts |-> 1, state |-> "running"])
               /\ drainPc' = [drainPc EXCEPT ![d] = "stream"]
    /\ UNCHANGED <<fixedVars, first_iteration, storeVars, tickPc, tickNo, tickLocals, now,
                   processing, histVars>>

\* start_streamlink returns True or False (its retries are internal); it catches
\* every exception itself
DrainStreamDoneV3(d) ==
    /\ CanRun(d) /\ drainPc[d] = "stream"
    /\ ready' = Tail(ready)
    /\ \E success \in BOOLEAN, suspends \in BOOLEAN :
         LET h == LoopHead(queue, suspends) IN
            /\ jobs' = [jobs EXCEPT ![RunningJob(d)].state =
                                        IF success THEN "success" ELSE "failed"]
            /\ drainPc' = [drainPc EXCEPT ![d] = h.pc]
            /\ processing' = h.processing
    /\ UNCHANGED <<fixedVars, first_iteration, storeVars, tickPc, tickNo, tickLocals, now,
                   queue, is_ingesting, histVars>>

NextV3 ==
    \/ WakeTick
    \/ TickSleepDone
    \/ TickProbeDoneV3
    \/ \E d \in DrainIds : WakeDrain(d)
    \/ \E d \in DrainIds : DrainStart(d)
    \/ \E d \in DrainIds : DrainStatusDoneV3(d)
    \/ \E d \in DrainIds : DrainStreamDoneV3(d)
    \/ \E d \in DrainIds : DrainSleepDone(d)
    \/ \E d \in DrainIds : DrainCloseDone(d)

SpecV3 == Init /\ [][NextV3]_vars

\* ------------------------------------------- APIManager.get_ingest_status
\* what the control API does during one call: whether a usable token is held,
\* how the login POST and the status GET end, and the `ingest` field
IngestInputs ==
    [phase : {"call"}, tokenValid : BOOLEAN,
     login : {"ok", "non200", "network", "parse"},
     status : {"ok", "non200", "network", "parse"},
     ingest : {"absent", "true", "false"}]

\* refresh_token: raises unless the POST answers 200 with a JSON body
RefreshTokenRaises(in) == in.login # "ok"

\* ensure_token: refresh only when no token is held or it has expired
EnsureTokenRaises(in) == ~in.tokenValid /\ RefreshTokenRaises(in)

\* mutant: the handler of get_ingest_status re-raises like refresh_token's
IngestExceptReraise == [raised |-> TRUE, ret |-> FALSE]

\* `except Exception`: log and return False
IngestExcept == [raised |-> FALSE, ret |-> FALSE]

\* APIManager.get_ingest_status
GetIngestStatus(in) ==
    IF EnsureTokenRaises(in) THEN IngestExcept
    ELSE IF in.status # "ok" THEN IngestExcept
    ELSE [raised |-> FALSE, ret |-> (in.ingest = "true")]

InitIngest == MainInit /\ disp = NoDispatch /\ fn \in IngestInputs

IngestCall ==
    /\ fn.phase = "call"
    /\ fn' = [phase |-> "done", in |-> fn, out |-> GetIngestStatus(fn)]
    /\ UNCHANGED <<mode, disp, first_iteration, storeVars, tickPc, tickNo, tickLocals, now,
                   queueVars, ready, histVars>>

NextIngest == IngestCall

SpecIngest == InitIngest /\ [][NextIngest]_vars

\* ------------------------------------------------ token_manager.TokenManager
\* wall-clock instants, 200 s apart
TokenTimes == {200 * i : i \in 0..MaxTokenSteps}

\* TokenManager._load_token: the token file's expiry (TsNone: no file, or no
\* expiry in it) is kept only if it lies more than the margin ahead
LoadToken(disk, clock) ==
    IF disk = TsNone \/ clock + EXPIRY_MARGIN >= disk
    THEN [token |-> FALSE, expiry |-> TsNone]
    ELSE [token |-> TRUE, expiry |-> disk]

\* TokenManager.get_valid_token: the test that decides to request a new token
NeedsNewToken(tm) == ~tm.token \/ tm.expiry = TsNone \/ tm.clock >= tm.expiry

NoGet == [requested |-> FALSE, raised |-> FALSE, returned |-> FALSE, expiry |-> TsNone, at |-> 0]

\* a token file left by an earlier run, and the time the process starts
InitToken ==
    /\ MainInit /\ disp = NoDispatch
    /\ fn \in [phase : {"new"}, disk : {TsNone} \cup TokenTimes, clock : TokenTimes,
                token : {FALSE}, expiry : {TsNone}, last : {NoGet}]

\* TokenManager.__init__: _load_token
TokenLoad ==
    /\ fn.phase = "new"
    /\ fn' = [fn EXCEPT !.phase = "ready",
                        !.token = LoadToken(fn.disk, fn.clock).token,
                        !.expiry = LoadToken(fn.disk, fn.clock).expiry]
    /\ UNCHANGED <<mode, disp, first_iteration, storeVars, tickPc, tickNo, tickLocals, now,
                   queueVars, ready, histVars>>

\* time passes between two calls
TokenClock ==
    /\ fn.phase = "ready"
    /\ \E t \in TokenTimes : t > fn.clock /\ fn' = [fn EXCEPT !.clock = t]
    /\ UNCHANGED <<mode, disp, first_iteration, storeVars, tickPc, tickNo, tickLocals, now,
                   queueVars, ready, histVars>>

\* TokenManager.get_valid_token; _request_new_token either stores the token with
\* the `exp` decoded from it (and saves it to disk) or raises
TokenGet ==
    /\ fn.phase = "ready"
    /\ IF NeedsNewToken(fn) THEN
          \/ \E e \in TokenTimes :
                fn' = [fn EXCEPT !.token = TRUE, !.expiry = e, !.disk = e,
                                 !.last = [requested |-> TRUE, raised |-> FALSE,
                                           returned |-> TRUE, expiry |-> e, at |-> fn.clock]]
          \/ fn' = [fn EXCEPT !.last = [requested |-> TRUE, raised |-> TRUE,
                                        returned |-> FALSE, expiry |-> TsNone, at |-> fn.clock]]
       ELSE fn' = [fn EXCEPT !.last = [requested |-> FALSE, raised |-> FALSE,
                                       returned |-> TRUE, expiry |-> fn.expiry, at |-> fn.clock]]
    /\ UNCHANGED <<mode, disp, first_iteration, storeVars, tickPc, tickNo, tickLocals, now,
                   queueVars, ready, histVars>>

NextToken == TokenLoad \/ TokenClock \/ TokenGet

SpecToken == InitToken /\ [][NextToken]_vars

\* --------------------------------------------- the yt-dlp classifiers, alone
\* a format descriptor's url / manifest_url: empty, or a URL named by the
\* broadcast marker it contains
UrlKinds == {"", "yt_live_broadcast", "yt_premiere_broadcast", "other"}

\* info["formats"]: no formats, or one descriptor
FormatLists ==
    {<<>>,
     <<[url |-> "yt_live_broadcast", manifest_url |-> ""]>>,
     <<[url |-> "yt_premiere_broadcast", manifest_url |-> ""]>>,
     <<[url |-> "other", manifest_url |-> ""]>>,
     <<[url |-> "other", manifest_url |-> "yt_live_broadcast"]>>}

\* release_timestamp: absent, None, the string "null", or epoch seconds
MetaReleaseValues == {TsAbsent, TsNone, TsNullStr} \cup (0..(MaxTime + 1))

\* the info dict of yt-dlp's extract_info, projected on the keys the
\* classifiers read
MetaRecords ==
    [isLiveNow : BOOLEAN, upcoming : BOOLEAN,
     is_live : {"true", "false", "absent"},
     was_live : {"true", "false", "absent"},
     live_status : {"is_live", "is_upcoming", "post_live", "was_live", "not_live", "absent"},
     release_timestamp : MetaReleaseValues,
     duration : {"absent", "zero", "int", "float"},
     formats : FormatLists]

\* the values ytbot.py's classifier gets from info.get(key, False)
InfoOf(rec) ==
    [isLiveNow |-> rec.isLiveNow, upcoming |-> rec.upcoming,
     is_live |-> (rec.is_live = "true"), was_live |-> (rec.was_live = "true"),
     release_timestamp |-> rec.release_timestamp]

\* release_ts = 0 if release_ts in [None, "null"] else int(release_ts)
TabReleaseTs(rec) ==
    IF rec.release_timestamp \in {TsAbsent, TsNone, TsNullStr} THEN 0
    ELSE rec.release_timestamp

\* f.get("url", "") or f.get("manifest_url", "")
Sources(rec) ==
    {IF rec.formats[i].url # "" THEN rec.formats[i].url ELSE rec.formats[i].manifest_url :
        i \in 1..Len(rec.formats)}

\* `not has_duration`
NotHasDuration(rec) == rec.duration \in {"absent", "zero"}

\* `has_duration and isinstance(has_duration, int)`
HasIntDuration(rec) == rec.duration = "int"

\* TabMonitor._classify_video_status of ytbot_update_by_claude.py; in the
\* fourth test `and` binds tighter than `or`
TabClassifyVideoStatus(rec, t) ==
    LET release_ts == TabReleaseTs(rec)
        has_live_broadcast == "yt_live_broadcast" \in Sources(rec)
        has_premiere_broadcast == "yt_premiere_broadcast" \in Sources(rec)
    IN  IF /\ has_live_broadcast
           /\ rec.is_live = "true"
           /\ rec.live_status = "is_live"
           /\ rec.was_live = "false"
           /\ NotHasDuration(rec)
        THEN "live"
        ELSE IF /\ has_premiere_broadcast
                /\ rec.live_status = "is_live"
                /\ release_ts # 0
                /\ rec.was_live = "false"
                /\ HasIntDuration(rec)
        THEN "upcoming_launched"
        ELSE IF /\ rec.live_status = "is_upcoming"
                /\ release_ts # 0
                /\ release_ts >= t
                /\ rec.was_live = "false"
                /\ rec.formats = <<>>
        THEN "upcoming_scheduled"
        ELSE IF \/ rec.live_status = "post_live"
                \/ (rec.live_status = "was_live" /\ release_ts # 0)
        THEN "live_VOD"
        ELSE IF /\ rec.live_status = "not_live"
                /\ rec.was_live = "false"
                /\ release_ts # 0
        THEN "live_VOD_Upcoming"
        ELSE "VOD"

\* one record, one clock reading, and the classifier not yet called
ClassifyInputs == [phase : {"call"}, rec : MetaRecords, t : Times]

InitClassify == MainInit /\ disp = NoDispatch /\ fn \in ClassifyInputs

\* VideoProcessor._classify_video_status(info) of ytbot.py
ClassifyCall ==
    /\ fn.phase = "call"
    /\ fn' = [phase |-> "done", who |-> "ytbot", rec |-> fn.rec, t |-> fn.t,
              status |-> ClassifyVideoStatus(InfoOf(fn.rec), fn.t)]
    /\ UNCHANGED <<mode, disp, first_iteration, storeVars, tickPc, tickNo, tickLocals, now,
                   queueVars, ready, histVars>>

\* TabMonitor._classify_video_status(info) of ytbot_update_by_claude.py
TabClassifyCall ==
    /\ fn.phase = "call"
    /\ fn' = [phase |-> "done", who |-> "tab", rec |-> fn.rec, t |-> fn.t,
              status |-> TabClassifyVideoStatus(fn.rec, fn.t)]
    /\ UNCHANGED <<mode, disp, first_iteration, storeVars, tickPc, tickNo, tickLocals, now,
                   queueVars, ready, histVars>>

\* a second call of the same classifier on the same info dict, at a clock
\* reading that is not earlier
ClassifyAgain ==
    /\ fn.phase = "done"
    /\ \E t2 \in Times :
         /\ t2 >= fn.t
         /\ fn' = [phase |-> "again", who |-> fn.who, rec |-> fn.rec, t |-> fn.t,
                   status |-> fn.status, t2 |-> t2,
                   status2 |-> IF fn.who = "ytbot"
                               THEN ClassifyVideoStatus(InfoOf(fn.rec), t2)
                               ELSE TabClassifyVideoStatus(fn.rec, t2)]
    /\ UNCHANGED <<mode, disp, first_iteration, storeVars, tickPc, tickNo, tickLocals, now,
                   queueVars, ready, histVars>>

NextClassify == ClassifyCall \/ TabClassifyCall \/ ClassifyAgain

SpecClassify == InitClassify /\ [][NextClassify]_vars

\* ------------------------------------------------ TabMonitor.monitor_tabs
\* the valid channel URLs of one call, in list order
Urls == 1..NumUrls

\* TabMonitor(rate_limit, chunk_size): the program's arguments, and a
\* semaphore smaller than a chunk
RateLimits == {LowRate, RATE_LIMIT}
ChunkSizes == {CHUNK_SIZE}

\* async with self.rate_limit, on entry: a permit can be taken at once
CanAcquire(permits) == permits > 0

\* mutant: the permit is kept when the probe ends
ReleaseLeaked(permits) == permits

\* async with self.rate_limit, on exit (return or exception): release()
Release(permits) == permits + 1

\* mutant: the chunk's result replaces the set
UpdateReplace(all, result) == result

\* all_video_ids.update(result)
Update(all, result) == all \cup result

\* for result in chunk_results: every result is a set here, since
\* _process_channel turns each failure into set()
RECURSIVE UpdateFrom(_, _, _, _)
UpdateFrom(all, res, i, hi) ==
    IF i > hi THEN all ELSE UpdateFrom(Update(all, res[i]), res, i + 1, hi)

\* the last URL of the chunk that starts at URL lo
ChunkEnd(m, lo) == Min(lo + m.chunk_size - 1, m.n)

\* the tasks gather() creates for the chunk that starts at URL lo
ChunkTasks(m, lo) == [u \in Urls |-> IF u >= lo /\ u <= ChunkEnd(m, lo) THEN "new" ELSE "idle"]

NoResults == [u \in Urls |-> {}]

\* a TabMonitor whose monitor_tabs is about to be called with n valid URLs;
\* good, probed, failed and waited record what happened during the call
MonitorInputs ==
    {[phase |-> "start", rate_limit |-> r, chunk_size |-> c, n |-> n, permits |-> r,
      lo |-> 1, probe |-> [u \in Urls |-> "idle"], result |-> NoResults,
      all_video_ids |-> {}, good |-> {}, probed |-> {}, failed |-> {},
      waited |-> FALSE] :
        r \in RateLimits, c \in ChunkSizes, n \in 0..NumUrls}

InitMonitor ==
    /\ MainInit /\ mode = "db" /\ dbOld = {} /\ dbNotified = EmptyMap
    /\ disp = NoDispatch /\ fn \in MonitorInputs

monitorRest == <<mode, disp, first_iteration, storeVars, tickPc, tickNo, tickLocals, now,
                 queueVars, ready, histVars>>

\* monitor_tabs up to the first gather: no valid URL returns set() at once
MonitorStart ==
    /\ fn.phase = "start"
    /\ fn' = IF fn.n = 0
             THEN [fn EXCEPT !.phase = "returned"]
             ELSE [fn EXCEPT !.phase = "gather", !.probe = ChunkTasks(fn, 1)]
    /\ UNCHANGED monitorRest

\* a task of the chunk runs _process_channel up to the semaphore: it takes a
\* permit and enters asyncio.to_thread(extract_info), or waits for a permit
ProbeStart(u) ==
    /\ fn.phase = "gather" /\ fn.probe[u] = "new"
    /\ fn' = IF CanAcquire(fn.permits)
             THEN [fn EXCEPT !.probe[u] = "call", !.permits = @ - 1]
             ELSE [fn EXCEPT !.probe[u] = "waiting", !.waited = TRUE]
    /\ UNCHANGED monitorRest

\* a waiting task gets a permit that was released
ProbeAcquire(u) ==
    /\ fn.phase = "gather" /\ fn.probe[u] = "waiting"
    /\ CanAcquire(fn.permits)
    /\ fn' = [fn EXCEPT !.probe[u] = "call", !.permits = @ - 1]
    /\ UNCHANGED monitorRest

\* extract_info returns the channel's entries, or raises and the handler
\* returns set(); leaving the `async with` releases the permit
ProbeDone(u) ==
    /\ fn.phase = "gather" /\ fn.probe[u] = "call"
    /\ \E ok \in BOOLEAN : \E ids \in SUBSET Videos :
         /\ ~ok => ids = {}
         /\ fn' = [fn EXCEPT !.probe[u] = "done", !.result[u] = ids,
                             !.permits = Release(@),
                             !.good = IF ok THEN @ \cup ids ELSE @,
                             !.probed = @ \cup {u},
                             !.failed = IF ok THEN @ ELSE @ \cup {u}]
    /\ UNCHANGED monitorRest

\* mutant: gather returns with the first task that is done
GatherReturnsEarly(probe) == \E u \in Urls : probe[u] = "done"

\* await asyncio.gather(*tasks): every task of the chunk is done
GatherReturns(probe) == \A u \in Urls : probe[u] \in {"idle", "done"}

\* gather returns when every task of the chunk is done; the results are merged
GatherDone ==
    /\ fn.phase = "gather"
    /\ GatherReturns(fn.probe)
    /\ fn' = [fn EXCEPT !.phase = "sleep",
                        !.all_video_ids = UpdateFrom(@, fn.result, fn.lo, ChunkEnd(fn, fn.lo)),
                        !.probe = [u \in Urls |-> "idle"],
                        !.result = NoResults]
    /\ UNCHANGED monitorRest

\* asyncio.sleep(0.5) ends: the next chunk, or the end of the loop and return
ChunkSleepDone ==
    /\ fn.phase = "sleep"
    /\ LET lo == ChunkEnd(fn, fn.lo) + 1
       IN  fn' = IF lo > fn.n
                 THEN [fn EXCEPT !.phase = "returned"]
                 ELSE [fn EXCEPT !.phase = "gather", !.lo = lo, !.probe = ChunkTasks(fn, lo)]
    /\ UNCHANGED monitorRest

NextMonitor ==
    \/ MonitorStart
    \/ \E u \in Urls : ProbeStart(u)
    \/ \E u \in Urls : ProbeAcquire(u)
    \/ \E u \in Urls : ProbeDone(u)
    \/ GatherDone
    \/ ChunkSleepDone

SpecMonitor == InitMonitor /\ [][NextMonitor]_vars

\* ------------------------- MonitorService and ManualMonitorService, side by side
\* VideoProcessor.save_data of a service: writes only with a db_manager
SaveDataOf(m, st) ==
    IF m = "db"
    THEN [st EXCEPT !.dbOld = SaveOld(st.dbOld, st.old),
                    !.dbNotified = SaveNotified(st.dbNotified, st.notified)]
    ELSE st

\* a service after setup() on an empty store: load_data gives empty sets;
\* adds lists, tick by tick, the add_video calls the service has made
ServiceInit ==
    [old |-> {}, notified |-> EmptyMap, dbOld |-> {}, dbNotified |-> EmptyMap,
     first_iteration |-> TRUE, adds |-> <<>>]

\* what fetching and dispatching one video at time t can come to: no result,
\* or the outcome of _handle_video_status for the fetched status
DispatchResults(t) ==
    {[fetched |-> r.fetched, h |-> HandleVideoStatus(r.status, r.published, t)] :
        r \in FetchResults(t)}

\* what one tick gets from outside: the probe's IDs, the video visited first
\* in the set of new videos, each probed video's fetch and dispatch, the clock
TickInputs(t) ==
    UNION {{[ids |-> ids, first |-> f, res |-> r, t |-> t] :
               f \in (IF ids = {} THEN {NoVideo} ELSE ids),
               r \in [ids -> DispatchResults(t)]} : ids \in SUBSET Videos}

\* `for video_id in new_videos` for the set nv
VisitOrder(nv, first) ==
    CHOOSE o \in Orders(nv) : (first \in nv => o[1] = first)

\* the loop of process_new_videos from position i on: the add_video calls and
\* videos_to_notify, up to the end or to an exception of _handle_video_status
RECURSIVE ProcessLoop(_, _, _, _, _)
ProcessLoop(order, i, in, vtn, adds) ==
    IF i > Len(order) THEN [raised |-> FALSE, vtn |-> vtn, adds |-> adds]
    ELSE LET v == order[i]
             r == in.res[v]
             h == r.h
         IN  IF ~r.fetched THEN ProcessLoop(order, i + 1, in, vtn, adds)
             ELSE IF h.raises THEN [raised |-> TRUE, vtn |-> vtn, adds |-> adds]
             ELSE ProcessLoop(order, i + 1, in,
                              IF h.ret THEN Merge(vtn, [x \in {v} |-> in.t]) ELSE vtn,
                              IF h.enqueue THEN Append(adds, v) ELSE adds)

\* VideoProcessor.process_new_videos for a service of kind m
ProcessNewVideos(m, st, nv, in) ==
    LET l == ProcessLoop(VisitOrder(nv, in.first), 1, in, EmptyMap, <<>>)
        st1 == [st EXCEPT !.adds = Append(@, l.adds)]
        st2 == IF DOMAIN l.vtn # {}
               THEN SaveDataOf(m, [st1 EXCEPT !.notified = Merge(@, l.vtn)])
               ELSE st1
    IN  IF l.raised THEN st1
        ELSE SaveDataOf(m, [st2 EXCEPT !.old = @ \cup nv])

\* mutant: the manual service's first iteration seeds nothing
ManualFirstIterationNoSeed(st, ids) == [st EXCEPT !.first_iteration = FALSE, !.adds = Append(@, <<>>)]

\* ManualMonitorService.start, first iteration: seed Seen in memory
ManualFirstIteration(st, ids) ==
    [st EXCEPT !.old = @ \cup ids, !.first_iteration = FALSE, !.adds = Append(@, <<>>)]

\* MonitorService.start, first iteration: seed Seen and save
DbFirstIteration(st, ids) ==
    SaveDataOf("db", [st EXCEPT !.old = @ \cup ids, !.first_iteration = FALSE, !.adds = Append(@, <<>>)])

\* one pass of the `while True` body of the service of kind m
ServiceTick(m, st, in) ==
    IF st.first_iteration
    THEN (IF m = "db" THEN DbFirstIteration(st, in.ids) ELSE ManualFirstIteration(st, in.ids))
    ELSE LET nv == in.ids \ st.old
         IN  IF nv = {} THEN [st EXCEPT !.adds = Append(@, <<>>)]
             ELSE ProcessNewVideos(m, st, nv, in)

InitPair ==
    /\ MainInit /\ mode = "db" /\ dbOld = {} /\ dbNotified = EmptyMap
    /\ disp = NoDispatch
    /\ fn = [phase |-> "pair", tick |-> 0, t |-> 0, db |-> ServiceInit, manual |-> ServiceInit]

\* both services take their next tick with the same inputs
PairTick ==
    /\ fn.phase = "pair" /\ fn.tick < MaxTicks
    /\ \E t \in fn.t..MaxTime : \E in \in TickInputs(t) :
         fn' = [phase |-> "pair", tick |-> fn.tick + 1, t |-> t,
                db |-> ServiceTick("db", fn.db, in),
                manual |-> ServiceTick("manual", fn.manual, in)]
    /\ UNCHANGED monitorRest

NextPair == PairTick

SpecPair == InitPair /\ [][NextPair]_vars

\* ------------------------------- SIGINT / SIGTERM while a pipeline is active
\* start_stream has created both children and its three tasks and awaits the
\* copy task; queued URLs wait behind the job; signalled lists the children
\* the program itself has sent a signal to
ShutdownInputs ==
    [phase : {"streaming"}, copy : {"running"}, drain : {"await_copy"},
     streamlink : {"running"}, ffmpeg : {"running"}, stdinClosed : {FALSE},
     queued : 0..MaxQueued, signals : {0}, signalled : {<<>>}]

InitShutdown == MainInit /\ disp = NoDispatch /\ fn \in ShutdownInputs

\* what is left of a child when the interpreter exits while it runs: nothing
\* stops it, or its transport is collected and kills it
AtExit(child) == IF child = "running" THEN {"running", "killed"} ELSE {child}

\* the extractor exits by itself: the stream ended, it failed, or it received
\* the terminal's signal too
StreamlinkExits ==
    /\ fn.phase \in {"streaming", "cleanup"} /\ fn.streamlink = "running"
    /\ fn' = [fn EXCEPT !.streamlink = "exited"]
    /\ UNCHANGED monitorRest

\* the re-muxer exits by itself: end of input, an error, or the terminal's signal
FfmpegExits ==
    /\ fn.phase \in {"streaming", "cleanup"} /\ fn.ffmpeg = "running"
    /\ fn' = [fn EXCEPT !.ffmpeg = "exited"]
    /\ UNCHANGED monitorRest

\* _stream_copy ends on EOF from the extractor or on a write error after the
\* re-muxer's exit; its finally closes the re-muxer's stdin
CopyEnds ==
    /\ fn.phase \in {"streaming", "cleanup"} /\ fn.copy = "running"
    /\ fn.streamlink # "running" \/ fn.ffmpeg # "running"
    /\ fn' = [fn EXCEPT !.copy = "done", !.stdinClosed = TRUE]
    /\ UNCHANGED monitorRest

\* start_stream's finally: wait for the extractor, then for the re-muxer
DrainWaits ==
    /\ fn.phase \in {"streaming", "cleanup"}
    /\ \/ /\ fn.drain = "await_copy" /\ fn.copy = "done"
          /\ fn' = [fn EXCEPT !.drain = "wait_streamlink"]
       \/ /\ fn.drain = "wait_streamlink" /\ fn.streamlink # "running"
          /\ fn' = [fn EXCEPT !.drain = "wait_ffmpeg"]
       \/ /\ fn.drain = "wait_ffmpeg" /\ fn.ffmpeg # "running"
          /\ fn' = [fn EXCEPT !.drain = "returned"]
    /\ UNCHANGED monitorRest

\* start_stream has returned (the return in its finally also ends a pending
\* cancellation): process_queue takes the next URL and starts its pipeline,
\* or ends; with the last task ended a pending exit completes
DrainGoesOn ==
    /\ fn.phase \in {"streaming", "cleanup"} /\ fn.drain = "returned"
    /\ fn' = IF fn.queued > 0
             THEN [fn EXCEPT !.queued = @ - 1, !.copy = "running", !.drain = "await_copy",
                             !.streamlink = "running", !.ffmpeg = "running",
                             !.stdinClosed = FALSE]
             ELSE IF fn.phase = "cleanup" THEN [fn EXCEPT !.phase = "exited"]
             ELSE [fn EXCEPT !.phase = "idle"]
    /\ UNCHANGED monitorRest

\* handle_signal: sys.exit(0). The first signal ends the event loop's run and
\* asyncio.run cancels every task: the copy task closes the re-muxer's stdin,
\* the drain goes to start_stream's finally. A signal during that clean-up
\* ends it, and the process exits at once.
Signal ==
    /\ fn.phase \in {"streaming", "cleanup"} /\ fn.signals < MaxSignals
    /\ IF fn.phase = "streaming"
       THEN fn' = [fn EXCEPT !.phase = "cleanup", !.signals = @ + 1,
                             !.copy = "done", !.stdinClosed = TRUE,
                             !.drain = IF @ = "await_copy" THEN "wait_streamlink" ELSE @]
       ELSE \E s \in AtExit(fn.streamlink) : \E f \in AtExit(fn.ffmpeg) :
               fn' = [fn EXCEPT !.phase = "exited", !.signals = @ + 1,
                                !.streamlink = s, !.ffmpeg = f]
    /\ UNCHANGED monitorRest

NextShutdown ==
    \/ StreamlinkExits
    \/ FfmpegExits
    \/ CopyEnds
    \/ DrainWaits
    \/ DrainGoesOn
    \/ Signal

SpecShutdown == InitShutdown /\ [][NextShutdown]_vars

\* ----------------------------------------------------------- main, startup
\* one start of the program for a configured channel: the command-line option
\* used, whether sqlite can open the channel's store, and the state of the
\* channels file
StartupInputs ==
    [phase : {"main"}, option : {"channel_id", "monitor_channel"},
     storeOpens : BOOLEAN,
     channels : {"ok", "missing", "malformed", "no_urls"},
     exitCode : {TsNone}, probes : {0}]

InitStartup == MainInit /\ disp = NoDispatch /\ fn \in StartupInputs

\* DatabaseManager.setup: False when sqlite3.connect or a statement raises
DbSetup(in) == in.storeOpens

\* ChannelManager.load_channels and _load_channel_urls: the channel's URLs are
\* found only in a well-formed file that lists the channel
ChannelUrlsFound(in) == in.channels = "ok"

\* main returns after a failed setup or after start() has returned: the
\* interpreter exits with status 0
ExitAfterReturn == 0

\* setup_ok = asyncio.run(service.setup()); if setup_ok: ...
MainSetup ==
    /\ fn.phase = "main"
    /\ fn' = IF DbSetup(fn)
             THEN [fn EXCEPT !.phase = "start"]
             ELSE [fn EXCEPT !.phase = "exited", !.exitCode = ExitAfterReturn]
    /\ UNCHANGED monitorRest

\* MonitorService.start up to the loop: no URLs, log and return
MainStart ==
    /\ fn.phase = "start"
    /\ fn' = IF ChannelUrlsFound(fn)
             THEN [fn EXCEPT !.phase = "loop"]
             ELSE [fn EXCEPT !.phase = "exited", !.exitCode = ExitAfterReturn]
    /\ UNCHANGED monitorRest

\* a pass of the `while True` loop calls monitor_tabs
MainProbe ==
    /\ fn.phase = "loop" /\ fn.probes < MaxProbes
    /\ fn' = [fn EXCEPT !.probes = @ + 1]
    /\ UNCHANGED monitorRest

NextStartup == MainSetup \/ MainStart \/ MainProbe

SpecStartup == InitStartup /\ [][NextStartup]_vars

\* ------------------------------------- DatabaseManager and save_data, alone
\* the timestamps of Notified rows: an earlier and a later int(time.time())
StampTimes == {0, MaxTime}

\* the maps a Notified table or dict can hold
NotifiedMaps == UNION {[S -> StampTimes] : S \in SUBSET Videos}

\* m restricted to the keys in S
Restrict(m, S) == [x \in (DOMAIN m) \cap S |-> m[x]]

\* load_old_video_ids: SELECT video_id FROM old_video_ids
LoadOld(table) == table

\* load_notified_video_ids: SELECT video_id, timestamp FROM notified_video_ids
LoadNotified(table) == table

\* save_old_video_ids when sqlite raises: the connection is in autocommit
\* mode, so the rows inserted before the error stay; the error is logged
SaveOldFailing(table, ids) == {SaveOld(table, part) : part \in (SUBSET ids) \ {ids}}

\* save_notified_video_ids when sqlite raises
SaveNotifiedFailing(table, m) ==
    {SaveNotified(table, Restrict(m, part)) : part \in (SUBSET (DOMAIN m)) \ {DOMAIN m}}

\* a store as an earlier run left it, opened by setup() and read by load_data
StoreInputs ==
    {[phase |-> "store", table |-> st.old, tableN |-> st.notified, old |-> LoadOld(st.old),
      notified |-> LoadNotified(st.notified), saves |-> 0, failed |-> 0,
      seenWrite |-> "none", notifiedWrite |-> "none", dirty |-> FALSE,
      reopened |-> FALSE, loadedValid |-> FALSE, loaded |-> {}] :
        st \in {x \in [old : SUBSET Videos, notified : NotifiedMaps] :
                  DOMAIN x.notified \subseteq x.old}}

InitStore ==
    /\ MainInit /\ mode = "db" /\ dbOld = {} /\ dbNotified = EmptyMap
    /\ disp = NoDispatch /\ fn \in StoreInputs

\* a tick changes the sets in memory for a new video:
\* old_video_ids_memory.update(new_videos), and for a video that was
\* dispatched notified_video_ids_memory.update(videos_to_notify)
StoreAdd ==
    /\ fn.phase = "store"
    /\ \E x \in Videos : \E notify \in BOOLEAN : \E t \in StampTimes :
         fn' = [fn EXCEPT !.old = SeenUpdate(@, {x}),
                          !.notified = IF notify THEN Merge(@, [v \in {x} |-> t]) ELSE @,
                          !.dirty = TRUE, !.loadedValid = FALSE]
    /\ UNCHANGED monitorRest

\* VideoProcessor.save_data: the two writes, each of which sqlite can fail
StoreSave ==
    /\ fn.phase = "store" /\ fn.saves < MaxSaves
    /\ \E ok1, ok2 \in BOOLEAN :
       \E t1 \in (IF ok1 THEN {SaveOld(fn.table, fn.old)}
                           ELSE SaveOldFailing(fn.table, fn.old)) :
       \E t2 \in (IF ok2 THEN {SaveNotified(fn.tableN, fn.notified)}
                           ELSE SaveNotifiedFailing(fn.tableN, fn.notified)) :
         fn' = [fn EXCEPT !.table = t1, !.tableN = t2, !.saves = @ + 1,
                          !.failed = IF ok1 /\ ok2 THEN @ ELSE @ + 1,
                          !.seenWrite = IF ok1 THEN "ok" ELSE "failed",
                          !.notifiedWrite = IF ok2 THEN "ok" ELSE "failed",
                          !.dirty = FALSE, !.reopened = FALSE, !.loadedValid = FALSE]
    /\ UNCHANGED monitorRest

\* DatabaseManager.close, then setup() connects to the same file
StoreReopen ==
    /\ fn.phase = "store" /\ ~fn.reopened /\ fn.saves > 0
    /\ fn' = [fn EXCEPT !.reopened = TRUE]
    /\ UNCHANGED monitorRest

\* load_old_video_ids reads the table
StoreLoad ==
    /\ fn.phase = "store" /\ ~fn.loadedValid /\ fn.saves > 0
    /\ fn' = [fn EXCEPT !.loadedValid = TRUE, !.loaded = LoadOld(fn.table)]
    /\ UNCHANGED monitorRest

NextStore == StoreAdd \/ StoreSave \/ StoreReopen \/ StoreLoad

SpecStore == InitStore /\ [][NextStore]_vars

\* ------------------------------------------------------------------
\* ytbot_youtube_data_api_v3.py, StreamManager.start_streamlink: one job, with
\* the recursive retries unrolled (each retry is the tail call of line 598, and
\* its result is returned unchanged by every outer frame).
StreamlinkCodes == {0, 1, 130}

RetryAlways(retries) == retries <= MAX_RETRIES

\* line 593: if retries < MAX_RETRIES
MayRetry(retries) == retries < MAX_RETRIES

StreamlinkInputs ==
    {[phase |-> "start", debug |-> d, retries |-> 0, codes |-> <<>>,
      spawnFailed |-> FALSE, result |-> FALSE] : d \in BOOLEAN}

InitStreamlink == MainInit /\ disp = NoDispatch /\ fn \in StreamlinkInputs

\* lines 565-582: create_subprocess_exec starts the extractor, or raises and the
\* except of line 607 returns False
StreamlinkSpawn ==
    /\ fn.phase = "start"
    /\ \/ fn' = [fn EXCEPT !.phase = "wait"]
       \/ fn' = [fn EXCEPT !.phase = "returned", !.spawnFailed = TRUE, !.result = FALSE]
    /\ UNCHANGED monitorRest

\* lines 585-605: process.wait() returns, then the three ways out
StreamlinkExit ==
    /\ fn.phase = "wait"
    /\ \E code \in StreamlinkCodes :
         fn' = IF code = 0
                 THEN [fn EXCEPT !.codes = Append(@, code), !.phase = "returned", !.result = TRUE]
               ELSE IF MayRetry(fn.retries)
                 THEN [fn EXCEPT !.codes = Append(@, code), !.phase = "start",
                                 !.retries = @ + 1]
               ELSE [fn EXCEPT !.codes = Append(@, code), !.phase = "returned",
                               !.result = FALSE]
    /\ UNCHANGED monitorRest

NextStreamlink == StreamlinkSpawn \/ StreamlinkExit

\* the event loop resumes the coroutine whenever the spawn or the wait completes
SpecStreamlink == InitStreamlink /\ [][NextStreamlink]_vars /\ WF_vars(NextStreamlink)

\* ------------------------------------------------------------------
\* ytbot_update_by_claude.py, StreamManager.start_stream called for each new
\* video of a tick: the children of the attempt, and the children of earlier
\* attempts that are still alive (lingering)
ExitCodes == {0, 1}

AttemptInputs ==
    {[phase |-> "spawn_streamlink", left |-> n, streamlink |-> "none", ffmpeg |-> "none",
      streamlink_rc |-> -1, ffmpeg_rc |-> -1, result |-> <<-1, -1>>, lingering |-> 0] :
        n \in 0..(NumVideos - 1)}

InitAttempt == MainInit /\ disp = NoDispatch /\ fn \in AttemptInputs

Alive(child) == child \in {"running", "signalled"}

\* except Exception of start_stream: terminate() for each child that was
\* created, no wait(); terminate() raises ProcessLookupError for a child whose
\* exit the loop has already seen
ExceptTerminate(f) ==
    IF f.streamlink = "exited" \/ f.ffmpeg = "exited"
    THEN [f EXCEPT !.phase = "raised",
                   !.ffmpeg = IF f.streamlink # "exited" /\ @ = "running"
                              THEN "signalled" ELSE @,
                   !.streamlink = IF @ = "running" THEN "signalled" ELSE @]
    ELSE [f EXCEPT !.phase = "returned", !.result = <<-1, -1>>,
                   !.streamlink = IF @ = "running" THEN "signalled" ELSE @,
                   !.ffmpeg = IF @ = "running" THEN "signalled" ELSE @]

\* create_subprocess_exec for streamlink succeeds or raises
AttemptSpawnStreamlink ==
    /\ fn.phase = "spawn_streamlink"
    /\ \/ fn' = [fn EXCEPT !.phase = "spawn_ffmpeg", !.streamlink = "running"]
       \/ fn' = ExceptTerminate(fn)
    /\ UNCHANGED monitorRest

\* create_subprocess_exec for ffmpeg succeeds or raises
AttemptSpawnFfmpeg ==
    /\ fn.phase = "spawn_ffmpeg"
    /\ \/ fn' = [fn EXCEPT !.phase = "wait_streamlink", !.ffmpeg = "running"]
       \/ fn' = ExceptTerminate(fn)
    /\ UNCHANGED monitorRest

\* a child ends, by itself or on the signal it was sent
AttemptChildExits ==
    /\ \/ /\ Alive(fn.streamlink)
          /\ \E rc \in ExitCodes : fn' = [fn EXCEPT !.streamlink = "exited", !.streamlink_rc = rc]
       \/ /\ Alive(fn.ffmpeg)
          /\ \E rc \in ExitCodes : fn' = [fn EXCEPT !.ffmpeg = "exited", !.ffmpeg_rc = rc]
       \/ /\ fn.lingering > 0
          /\ fn' = [fn EXCEPT !.lingering = @ - 1]
    /\ UNCHANGED monitorRest

\* streamlink_proc.wait(), then ffmpeg_proc.wait(), then return
AttemptWait ==
    /\ \/ /\ fn.phase = "wait_streamlink" /\ fn.streamlink = "exited"
          /\ fn' = [fn EXCEPT !.phase = "wait_ffmpeg"]
       \/ /\ fn.phase = "wait_ffmpeg" /\ fn.ffmpeg = "exited"
          /\ fn' = [fn EXCEPT !.phase = "returned",
                              !.result = <<fn.streamlink_rc, fn.ffmpeg_rc>>]
    /\ UNCHANGED monitorRest

\* MonitorService.start: after a return the for loop goes on with the next new
\* video; an exception ends the loop body and the service sleeps
AttemptNext ==
    /\ fn.phase \in {"returned", "raised"}
    /\ LET live == (IF Alive(fn.streamlink) THEN 1 ELSE 0) + (IF Alive(fn.ffmpeg) THEN 1 ELSE 0)
       IN  fn' = IF fn.phase = "returned" /\ fn.left > 0
                 THEN [fn EXCEPT !.phase = "spawn_streamlink", !.left = @ - 1,
                                 !.streamlink = "none", !.ffmpeg = "none",
                                 !.streamlink_rc = -1, !.ffmpeg_rc = -1,
                                 !.lingering = @ + live]
                 ELSE [fn EXCEPT !.phase = "sleep", !.left = 0,
                                 !.streamlink = "none", !.ffmpeg = "none",
                                 !.streamlink_rc = -1, !.ffmpeg_rc = -1,
                                 !.lingering = @ + live]
    /\ UNCHANGED monitorRest

NextAttempt ==
    \/ AttemptSpawnStreamlink
    \/ AttemptSpawnFfmpeg
    \/ AttemptChildExits
    \/ AttemptWait
    \/ AttemptNext

SpecAttempt == InitAttempt /\ [][NextAttempt]_vars

\* ------------------------------------------------------------------
\* ytbot.py, APIManager: the login POST and the status GET of one
\* get_ingest_status call on a new APIManager, against json_server_jwt.py
Jwts == {"jwt1", "jwt2"}

\* the JSON body of a 200 login answer that carries token T: the shape
\* json_server_jwt.py sends, and the flat shape
LoginBody(shape, T) ==
    IF shape = "user_token" THEN [user |-> [token |-> T]] ELSE [access_token |-> T]

\* data.get(key): None when the key is missing
DataGet(data, key) == IF key \in DOMAIN data THEN data[key] ELSE "None"

\* f"Bearer {self.token}"
Bearer(token) == <<"Bearer", token>>

\* json_server_jwt.py, authenticate_jwt: jwt.decode accepts the token that was
\* issued, unless it has expired
AuthenticateJwt(auth, issued, expired) == auth = Bearer(issued) /\ ~expired

LoginInputs ==
    {[phase |-> "start", shape |-> sh, issued |-> T, loginCode |-> lc, ingest |-> ing,
      expired |-> ex, token |-> "None", auth |-> <<>>, statusCode |-> 0, ret |-> FALSE] :
        sh \in {"user_token", "access_token"}, T \in Jwts, lc \in {200, 401},
        ing \in {"true", "false", "absent"}, ex \in BOOLEAN}

InitLogin == MainInit /\ disp = NoDispatch /\ fn \in LoginInputs

\* ensure_token on a new APIManager: refresh_token posts the login; a non-200
\* answer raises and get_ingest_status returns False
LoginPost ==
    /\ fn.phase = "start"
    /\ fn' = IF fn.loginCode = 200
             THEN [fn EXCEPT !.phase = "logged",
                             !.token = DataGet(LoginBody(fn.shape, fn.issued), "access_token")]
             ELSE [fn EXCEPT !.phase = "done", !.ret = FALSE]
    /\ UNCHANGED monitorRest

\* the status GET with the Authorization header; 200 gives data.get("ingest",
\* False), anything else raises and the call returns False
StatusGet ==
    /\ fn.phase = "logged"
    /\ LET auth == Bearer(fn.token)
           ok == AuthenticateJwt(auth, fn.issued, fn.expired)
       IN  fn' = [fn EXCEPT !.phase = "done", !.auth = auth,
                            !.statusCode = IF ok THEN 200 ELSE 401,
                            !.ret = ok /\ fn.ingest = "true"]
    /\ UNCHANGED monitorRest

NextLogin == LoginPost \/ StatusGet

SpecLogin == InitLogin /\ [][NextLogin]_vars

\* ------------------------------------------------------------------
\* MonitorService tick by tick, with the videos whose metadata fetch failed
\* in the tick that found them new
\* the videos process_new_videos fetched without a result, from position i on
\* and up to the end of the loop or to an exception of _handle_video_status
RECURSIVE FailedFetches(_, _, _)
FailedFetches(order, i, in) ==
    IF i > Len(order) THEN {}
    ELSE LET v == order[i]
             r == in.res[v]
         IN  IF ~r.fetched THEN {v} \cup FailedFetches(order, i + 1, in)
             ELSE IF r.h.raises THEN {}
             ELSE FailedFetches(order, i + 1, in)

InitRefetch ==
    /\ MainInit /\ mode = "db" /\ dbOld = {} /\ dbNotified = EmptyMap
    /\ disp = NoDispatch
    /\ fn = [phase |-> "refetch", tick |-> 0, t |-> 0, db |-> ServiceInit,
             failedFirst |-> {}, wasNew |-> {}]

\* one pass of the `while True` body of MonitorService.start
RefetchTick ==
    /\ fn.phase = "refetch" /\ fn.tick < MaxTicks
    /\ \E t \in fn.t..MaxTime : \E in \in TickInputs(t) :
         LET nv == IF fn.db.first_iteration THEN {} ELSE in.ids \ fn.db.old
             ff == IF nv = {} THEN {}
                   ELSE FailedFetches(VisitOrder(nv, in.first), 1, in) \ fn.wasNew
         IN  fn' = [phase |-> "refetch", tick |-> fn.tick + 1, t |-> t,
                    db |-> ServiceTick("db", fn.db, in),
                    failedFirst |-> fn.failedFirst \cup ff,
                    wasNew |-> fn.wasNew \cup nv]
    /\ UNCHANGED monitorRest

NextRefetch == RefetchTick

SpecRefetch == InitRefetch /\ [][NextRefetch]_vars

\* ------------------------------------------------------------------
\* ytbot.py, StreamManager.start_stream with both children started: the
\* extractor writes chunks to its stdout pipe (PipeCap chunks fit into the
\* pipe and the StreamReader), _stream_copy moves them to the re-muxer's
\* stdin, the supervisor awaits the copy task and then both children.
\* endless is a live stream; otherwise left chunks remain to be written.
PipelineInputs ==
    {[phase |-> "pipeline", endless |-> e, left |-> n, piped |-> 0,
      streamlink |-> "running", ffmpeg |-> "running", stdinClosed |-> FALSE,
      copy |-> "running", sup |-> "await_copy"] :
        e \in BOOLEAN, n \in 0..MaxChunks}

InitPipeline == MainInit /\ disp = NoDispatch /\ fn \in PipelineInputs

HasOutput(f) == f.endless \/ f.left > 0

\* the extractor writes a chunk; with a full pipe its write blocks
StreamlinkWrites ==
    /\ fn.phase = "pipeline" /\ fn.streamlink = "running"
    /\ HasOutput(fn) /\ fn.piped < PipeCap
    /\ fn' = [fn EXCEPT !.piped = @ + 1, !.left = IF fn.endless THEN @ ELSE @ - 1]
    /\ UNCHANGED monitorRest

\* the extractor has written everything and exits
StreamlinkEnds ==
    /\ fn.phase = "pipeline" /\ fn.streamlink = "running"
    /\ ~HasOutput(fn)
    /\ fn' = [fn EXCEPT !.streamlink = "exited"]
    /\ UNCHANGED monitorRest

\* the extractor fails and exits while it is not blocked in a write
StreamlinkFails ==
    /\ fn.phase = "pipeline" /\ fn.streamlink = "running"
    /\ HasOutput(fn) /\ fn.piped < PipeCap
    /\ fn' = [fn EXCEPT !.streamlink = "exited"]
    /\ UNCHANGED monitorRest

\* the re-muxer exits at the end of its input
FfmpegEnds ==
    /\ fn.phase = "pipeline" /\ fn.ffmpeg = "running" /\ fn.stdinClosed
    /\ fn' = [fn EXCEPT !.ffmpeg = "exited"]
    /\ UNCHANGED monitorRest

\* the re-muxer fails (the RTMP endpoint refuses or drops the connection)
FfmpegFails ==
    /\ fn.phase = "pipeline" /\ fn.ffmpeg = "running" /\ ~fn.stdinClosed
    /\ fn' = [fn EXCEPT !.ffmpeg = "exited"]
    /\ UNCHANGED monitorRest

\* _stream_copy: read a chunk and write it; the write to an exited re-muxer
\* raises, the except logs; EOF breaks the loop; the finally closes stdin
StreamCopy ==
    /\ fn.phase = "pipeline" /\ fn.copy = "running"
    /\ \/ /\ fn.piped > 0 /\ fn.ffmpeg = "running"
          /\ fn' = [fn EXCEPT !.piped = @ - 1]
       \/ /\ fn.piped > 0 /\ fn.ffmpeg = "exited"
          /\ fn' = [fn EXCEPT !.piped = @ - 1, !.copy = "done", !.stdinClosed = TRUE]
       \/ /\ fn.piped = 0 /\ fn.streamlink = "exited"
          /\ fn' = [fn EXCEPT !.copy = "done", !.stdinClosed = TRUE]
    /\ UNCHANGED monitorRest

\* start_stream: await tasks[0]; finally: streamlink_proc.wait(), then
\* ffmpeg_proc.wait(), then return
Supervise ==
    /\ fn.phase = "pipeline"
    /\ \/ /\ fn.sup = "await_copy" /\ fn.copy = "done"
          /\ fn' = [fn EXCEPT !.sup = "wait_streamlink"]
       \/ /\ fn.sup = "wait_streamlink" /\ fn.streamlink = "exited"
          /\ fn' = [fn EXCEPT !.sup = "wait_ffmpeg"]
       \/ /\ fn.sup = "wait_ffmpeg" /\ fn.ffmpeg = "exited"
          /\ fn' = [fn EXCEPT !.sup = "returned"]
    /\ UNCHANGED monitorRest

NextPipeline ==
    \/ StreamlinkWrites
    \/ StreamlinkEnds
    \/ StreamlinkFails
    \/ FfmpegEnds
    \/ FfmpegFails
    \/ StreamCopy
    \/ Supervise

\* the event loop runs every task that can go on, and a child that can go on
\* does; a failure of a child may never come
SpecPipeline ==
    /\ InitPipeline /\ [][NextPipeline]_vars
    /\ WF_vars(StreamlinkWrites) /\ WF_vars(StreamlinkEnds) /\ WF_vars(FfmpegEnds)
    /\ WF_vars(StreamCopy) /\ WF_vars(Supervise)

\* ------------------------------------------------------------------ claims
LiveDrains == {d \in DrainIds : drainPc[d] # "none"}
StreamsInFlight == {d \in DrainIds : drainPc[d] = "stream"}
\* a job whose start_stream call returned its (extractor_exit, remuxer_exit) pair
PairReturned(j) == j.state \in {"success", "failed"}
PairCount(v) == Cardinality({i \in 1..Len(jobs) : jobs[i].url = v /\ PairReturned(jobs[i])})

\* C1: the first tick after startup never calls add_video: until the second
\* probe has returned nothing was enqueued, no drain exists, process_new_videos
\* was not entered and Notified holds only what was loaded from the store.
C1_FirstTickEnqueuesNothing ==
    tickNo <= 1 =>
        /\ \A v \in Videos : addCount[v] = 0
        /\ queue = <<>> /\ jobs = <<>> /\ LiveDrains = {}
        /\ tickPc \in {"probe", "sleep"}
        /\ DOMAIN notified_video_ids_memory \subseteq StoredVideos

\* the first tick got every video from the probe and only seeded Seen with them
C1_Witness ==
    /\ tickNo = 1 /\ tickPc = "sleep" /\ ~first_iteration
    /\ old_video_ids_memory = Videos
    /\ (mode = "db") => (dbOld = Videos)

\* C2: for one VideoQueue at most one start_stream call is in flight at any
\* instant (and at most one drain task exists).
C2_AtMostOneStreamInFlight ==
    /\ Cardinality(StreamsInFlight) <= 1
    /\ Cardinality(LiveDrains) <= 1

\* a pipeline is in flight while the tick task is inside process_new_videos and
\* a second job is already waiting
C2_Witness ==
    /\ StreamsInFlight # {}
    /\ tickPc = "fetch"
    /\ queue # <<>>

\* C3: a given video ID is passed to add_video at most once per process lifetime.
C3_AddVideoAtMostOnce == \A v \in Videos : addCount[v] <= 1

\* C4: the keys of Notified are a subset of Seen, in memory and in the store.
C4_NotifiedSubsetOfSeen ==
    /\ DOMAIN notified_video_ids_memory \subseteq old_video_ids_memory
    /\ DOMAIN dbNotified \subseteq dbOld

\* C5: a video dispatched as upcoming_scheduled with release_ts <= now (late) has
\* been enqueued, and no video is put into videos_to_notify without an add_video.
C5_LateScheduledIsEnqueued ==
    /\ \A v \in lateSeen : addCount[v] >= 1
    /\ \A v \in DOMAIN videos_to_notify : addCount[v] >= 1

C7_FutureScheduledNeverEnqueued ==
    /\ addedAfterFuture = {}
    /\ futureSeen \cap DOMAIN notified_video_ids_memory = {}
    /\ (tickPc \in {"sleep", "probe"}) => (futureSeen \subseteq old_video_ids_memory)

\* C8: no job is popped in an iteration whose status check returned busy, and a
\* job starts only after every earlier job's exit-code pair has been returned.
C8_DrainWaitsForStatusAndPair ==
    \A j \in 1..Len(jobs) :
        /\ ~jobs[j].busy
        /\ \A i \in 1..(j - 1) : PairReturned(jobs[i])

\* C9: for every URL passed to add_video the drain obtains exactly one exit-code
\* pair: once no drain is left and the tick task is between ticks, each URL has
\* as many pairs as add_video calls.
C9_ExactlyOnePairPerAdd ==
    (LiveDrains = {} /\ tickPc \in {"sleep", "probe"})
        => \A v \in Videos : PairCount(v) = addCount[v]

\* C10: a pipeline attempt that ends with a pair other than (0, 0) is restarted
\* while retry budget remains: a job's final pair is a failure only after
\* MAX_RETRIES retries.
C10_FailedAttemptIsRetried ==
    \A j \in 1..Len(jobs) :
        (jobs[j].state = "failed") => (jobs[j].attempts = MAX_RETRIES + 1)

\* C11: every URL put on the queue is eventually popped: no state is reachable
\* where the queue is non-empty, no drain task is live and the tick task is
\* between ticks (no add_video pending).
C11_NoStrandedUrl ==
    ~(queue # <<>> /\ LiveDrains = {} /\ tickPc \in {"sleep", "probe"})

\* C12: in ytbot_youtube_data_api_v3.py at most one process_queue task per
\* VideoQueue is live at any time.
C12_AtMostOneDrainV3 == Cardinality(LiveDrains) <= 1

\* C13: pipelines are started in the order in which their URLs were passed to
\* add_video: the i-th job popped is the i-th URL added.
C13_PipelinesStartInAddOrder ==
    /\ Len(jobs) <= Len(added)
    /\ \A i \in 1..Len(jobs) : jobs[i].url = added[i]

\* two jobs were started, the one added first (the larger id) first
C13_Witness ==
    /\ Len(jobs) >= 2
    /\ added[1] = 2 /\ added[2] = 1
    /\ jobs[2].state # "raised"

\* C14: an exception raised inside the drain loop body does not end the drain:
\* the drain sleeps and goes back to the loop head, and a drain leaves its loop
\* only when the queue is empty.
C14_ExceptionKeepsDrainAlive ==
    [][\A d \in DrainIds :
         /\ (jobs' # jobs /\ Len(jobs') > 0 /\ jobs'[Len(jobs')].state = "raised"
               /\ jobs'[Len(jobs')].drain = d) => drainPc'[d] = "sleep_err"
         /\ (drainPc[d] = "sleep_err") => (drainPc'[d] \in {"sleep_err", "status", "closing", "none"})
         /\ (drainPc[d] \notin {"none", "closing"} /\ drainPc'[d] \in {"none", "closing"})
               => (queue = <<>> /\ queue' = <<>>)]_vars

\* a drain whose job raised went on and finished a later job
C14_Witness ==
    \E i, j \in 1..Len(jobs) :
        /\ i < j /\ jobs[i].state = "raised" /\ jobs[j].drain = jobs[i].drain
        /\ jobs[j].state = "success"

\* C15: get_ingest_status never raises; it returns False when the login fails,
\* when the status endpoint answers non-200 and on any network or parse error,
\* and the endpoint's `ingest` value only when login and status GET succeed.
C15_IngestStatusNeverRaises ==
    (fn.phase = "done") =>
        LET loginFailed == ~fn.in.tokenValid /\ fn.in.login # "ok" IN
        /\ ~fn.out.raised
        /\ (loginFailed \/ fn.in.status # "ok") => (fn.out.ret = FALSE)
        /\ (~loginFailed /\ fn.in.status = "ok") => (fn.out.ret = (fn.in.ingest = "true"))

\* a call that had to log in, whose login was refused, has returned False
C15_Witness ==
    /\ fn.phase = "done"
    /\ ~fn.in.tokenValid /\ fn.in.login = "non200" /\ fn.in.ingest = "true"
    /\ fn.out.ret = FALSE

\* C16: whenever get_valid_token returns without requesting a new token, the
\* held token's expiry is more than 300 s after the current time.
C16_TokenReturnedOutsideMargin ==
    (fn.phase = "ready" /\ fn.last.returned /\ ~fn.last.requested)
        => (fn.last.expiry > fn.last.at + EXPIRY_MARGIN)

\* C17: a crash at any point of a tick leaves in the persisted store none or all
\* of the tick's delta, and never a Notified row whose id is missing from the
\* persisted Seen table.
C17_CrashLeavesWholeDelta ==
    /\ DOMAIN dbNotified \subseteq dbOld
    /\ \/ (new_videos \cap dbOld = {} /\ DOMAIN videos_to_notify \cap DOMAIN dbNotified = {})
       \/ (new_videos \subseteq dbOld /\ DOMAIN videos_to_notify \subseteq DOMAIN dbNotified)

\* the videos that are on the channel before the first tick; a probe returns
\* them unless the request for their channel URL fails or comes back empty
ExistingVideos == {1}

\* C18: a video that already existed on the channel before the first tick is
\* never enqueued, also when the first probe failed or returned nothing.
C18_NoColdStartFlood == \A v \in ExistingVideos : addCount[v] = 0

\* section 4.C's decision table, rules 1 to 6 in order, first match wins; the
\* states are spelled as the code spells them
TableReleaseTs(rec) ==
    IF rec.release_timestamp \in {TsAbsent, TsNone, TsNullStr} THEN 0
    ELSE rec.release_timestamp
DecisionTable(rec, t) ==
    LET release_ts == TableReleaseTs(rec)
        urls == UNION {{rec.formats[i].url, rec.formats[i].manifest_url} :
                          i \in 1..Len(rec.formats)}
    IN  IF /\ "yt_live_broadcast" \in urls
           /\ rec.is_live = "true"
           /\ rec.live_status = "is_live"
           /\ rec.was_live = "false"
           /\ rec.duration = "absent"
        THEN "live"
        ELSE IF /\ "yt_premiere_broadcast" \in urls
                /\ rec.live_status = "is_live"
                /\ release_ts > 0
                /\ rec.was_live = "false"
                /\ rec.duration # "absent"
        THEN "upcoming_launched"
        ELSE IF /\ rec.live_status = "is_upcoming"
                /\ release_ts >= t
                /\ rec.was_live = "false"
                /\ rec.formats = <<>>
        THEN "upcoming_scheduled"
        ELSE IF rec.live_status \in {"post_live", "was_live"} /\ release_ts > 0
        THEN "live_VOD"
        ELSE "VOD"

\* C19: for every metadata record, the state ytbot.py's resolver assigns is
\* the state of the section 4.C decision table.
C19_ResolverFollowsTable ==
    (fn.phase = "done" /\ fn.who = "ytbot") => fn.status = DecisionTable(fn.rec, fn.t)

\* C20: TabMonitor's classifier returns live_VOD only for a record whose
\* live_status is post_live or was_live and whose release_ts is positive; a
\* post_live record with release_ts = 0 is classified VOD.
C20_LiveVodNeedsRelease ==
    (fn.phase = "done" /\ fn.who = "tab" /\ fn.status = "live_VOD")
        => (fn.rec.live_status \in {"post_live", "was_live"} /\ TabReleaseTs(fn.rec) > 0)

\* C21: TabMonitor's classifier returns a member of the closed set of states
\* for every record; a record with live_status = not_live, was_live = false
\* and release_ts > 0 is classified VOD.
C21_ClosedStateSet ==
    (fn.phase = "done" /\ fn.who = "tab")
        => /\ fn.status \in Statuses
           /\ (/\ fn.rec.live_status = "not_live"
               /\ fn.rec.was_live = "false"
               /\ TabReleaseTs(fn.rec) > 0) => fn.status = "VOD"

\* C22: an upcoming record (was_live = false, no formats) whose release_ts
\* equals the clock reading is classified upcoming_scheduled by both yt-dlp
\* classifiers; for ytbot.py the record carries the `upcoming` key it tests.
C22_UpcomingBoundaryInclusive ==
    (/\ fn.phase = "done"
     /\ fn.rec.live_status = "is_upcoming"
     /\ fn.rec.was_live = "false"
     /\ fn.rec.formats = <<>>
     /\ fn.rec.upcoming
     /\ ~fn.rec.isLiveNow
     /\ fn.t > 0
     /\ TabReleaseTs(fn.rec) = fn.t)
        => fn.status = "upcoming_scheduled"

\* C23: classifying the same metadata record twice yields the same state,
\* also when the two calls read different clock values.
C23_ClassifyTwiceSameState == fn.phase = "again" => fn.status2 = fn.status

\* C24: a release_timestamp that is absent, None, 0 or the string "null" is
\* read as 0: the classifier raises no error and returns the state it returns
\* for the same record with release_timestamp = 0.
C24_NullReleaseReadAsZero ==
    (fn.phase = "done" /\ fn.rec.release_timestamp \in {TsAbsent, TsNone, TsNullStr, 0})
        => LET zero == [fn.rec EXCEPT !.release_timestamp = 0]
           IN  /\ fn.status # "TypeError"
               /\ fn.status = IF fn.who = "ytbot"
                               THEN ClassifyVideoStatus(InfoOf(zero), fn.t)
                               ELSE TabClassifyVideoStatus(zero, fn.t)

\* the probes inside asyncio.to_thread(extract_info)
InUpstreamCall == {u \in Urls : fn.probe[u] = "call"}

\* C25: at most rate_limit probes are inside the upstream call at any instant,
\* and all permits are free again when monitor_tabs returns, also after
\* failed probes.
C25_SemaphoreBoundsProbes ==
    /\ Cardinality(InUpstreamCall) <= fn.rate_limit
    /\ Cardinality(InUpstreamCall) + fn.permits = fn.rate_limit
    /\ fn.phase = "returned" => fn.permits = fn.rate_limit
C25_Witness ==
    /\ fn.phase = "returned" /\ fn.waited /\ fn.failed # {}
    /\ fn.rate_limit < fn.chunk_size

\* C26: monitor_tabs returns the union of the ID sets of the probes that
\* succeeded, whatever probes failed, and every URL has been probed.
C26_ReturnsUnionOfSucceeded ==
    fn.phase = "returned" => (fn.all_video_ids = fn.good /\ fn.probed = 1..fn.n)
C26_Witness ==
    /\ fn.phase = "returned" /\ fn.n > fn.chunk_size
    /\ 1 \in fn.failed /\ fn.all_video_ids = Videos

\* C27: fed the same probe results and metadata from an empty store, the
\* manual service and the database service call add_video for the same videos
\* in each tick and hold equal Seen and Notified in memory; the manual
\* service persists nothing.
C27_ManualEqualsDb ==
    fn.phase = "pair" =>
        /\ fn.manual.adds = fn.db.adds
        /\ fn.manual.old = fn.db.old
        /\ fn.manual.notified = fn.db.notified
        /\ fn.manual.first_iteration = fn.db.first_iteration
        /\ fn.manual.dbOld = {} /\ fn.manual.dbNotified = EmptyMap
        /\ fn.db.dbOld = fn.db.old
C27_Witness ==
    /\ fn.phase = "pair" /\ fn.tick >= 2
    /\ fn.manual.adds[fn.tick] # <<>> /\ fn.manual.adds = fn.db.adds
    /\ DOMAIN fn.manual.notified # {}
    /\ fn.db.dbOld # {} /\ fn.manual.dbOld = {}

\* C28: a failure while one new video is resolved or dispatched does not end
\* the tick: process_new_videos is left only after every new video has been
\* visited and Seen has been updated with the tick's new videos.
C28_FailureDoesNotAbortTick ==
    [][(tickPc = "fetch" /\ tickPc' = "sleep")
          => (pending = {} /\ new_videos \subseteq old_video_ids_memory')]_vars

\* C29: when the process has exited after a signal, the program has signalled
\* the re-muxer and then the extractor, and no child is still running.
C29_ChildrenReapedBeforeExit ==
    fn.phase = "exited" =>
        /\ fn.signalled = <<"ffmpeg", "streamlink">>
        /\ fn.streamlink # "running" /\ fn.ffmpeg # "running"

\* C30: when the channel store cannot be opened or the channels file is
\* malformed, the program exits with a nonzero code and no probe is made.
C30_FatalStartupAborts ==
    (~fn.storeOpens \/ fn.channels = "malformed") =>
        /\ fn.probes = 0
        /\ fn.phase # "loop"
        /\ fn.phase = "exited" => fn.exitCode # 0

\* C31: the in-memory Seen set only grows: no step of the program, whatever
\* the outcome of the tick, removes a video from it.
C31_SeenOnlyGrows ==
    [][old_video_ids_memory \subseteq old_video_ids_memory']_vars

\* after the seeding tick a later tick has added a new video to Seen
C31_Witness ==
    /\ tickNo >= 2 /\ tickPc = "sleep"
    /\ \E v \in Videos : addCount[v] > 0 /\ v \in old_video_ids_memory

C34_RetriesBounded ==
    /\ [](Len(fn.codes) <= MAX_RETRIES + 1)
    /\ [](fn.phase = "returned" =>
             (fn.result <=> \E i \in 1..Len(fn.codes) : fn.codes[i] = 0))
    /\ <>(fn.phase = "returned")

C34_Witness ==
    /\ fn.phase = "returned" /\ ~fn.result /\ ~fn.spawnFailed
    /\ Len(fn.codes) = MAX_RETRIES + 1 /\ fn.retries = MAX_RETRIES

\* C35: when a pipeline attempt has ended, by a return or by an exception, no
\* child of that attempt is still running, and none is while a later attempt
\* or the sleep of the tick runs.
C35_NoChildAfterAttempt ==
    /\ fn.phase \in {"returned", "raised"} => (~Alive(fn.streamlink) /\ ~Alive(fn.ffmpeg))
    /\ fn.lingering = 0

\* C36: the chunks of monitor_tabs run one after another: a probe is in
\* flight only for a URL of the current chunk and only when every URL of the
\* earlier chunks has been probed to its end, so at most chunk_size probes are
\* in flight.
C36_ChunksSequential ==
    LET InFlight == {u \in Urls : fn.probe[u] \in {"new", "waiting", "call"}}
    IN  fn.phase \in {"gather", "sleep", "returned"} =>
          /\ InFlight \subseteq fn.lo..ChunkEnd(fn, fn.lo)
          /\ InFlight # {} => 1..(fn.lo - 1) \subseteq fn.probed
          /\ Cardinality(InFlight) <= fn.chunk_size

\* a probe of the second chunk is inside its call after a probe of the first
\* chunk has failed
C36_Witness ==
    /\ fn.phase = "gather" /\ fn.lo = fn.chunk_size + 1 /\ fn.probe[fn.lo] = "call"
    /\ fn.probed = 1..fn.chunk_size /\ fn.failed # {}

\* C37: the tick loop of ytbot.py does not wait for the drain, and the queue
\* keeps every added URL in its place: while a pipeline runs the tick task can
\* be woken from its sleep and can start the next probe, and the URLs passed
\* to add_video are at all times the URLs of the jobs started so far followed
\* by the queue.
C37_TickAndDrainIndependent ==
    LET Streaming == \E d \in DrainIds : drainPc[d] = "stream"
        JobUrls == [i \in 1..Len(jobs) |-> jobs[i].url]
    IN  /\ (Streaming /\ tickPc = "sleep" /\ tickNo < MaxTicks /\ ~InReady(TickTask))
              => ENABLED WakeTick
        /\ (Streaming /\ tickPc = "sleep" /\ ready # <<>> /\ Head(ready) = TickTask)
              => ENABLED TickSleepDone
        /\ added = JobUrls \o queue

\* the pipeline of a video added in an earlier tick is running, and the video
\* found by the present tick has been put on the queue behind it
C37_Witness ==
    /\ tickPc = "saved1" /\ Len(jobs) = 1 /\ Len(queue) = 1
    /\ jobs[1].state = "running" /\ drainPc[jobs[1].drain] = "stream"
    /\ new_videos = {queue[1]} /\ jobs[1].url # queue[1]
    /\ added = <<jobs[1].url, queue[1]>>

\* C38: after a 200 login answer of the shape {"user": {"token": T}} the
\* APIManager holds T, sends Bearer T on the status GET, and
\* get_ingest_status returns the endpoint's ingest value.
C38_LoginTokenIsUsed ==
    (fn.loginCode = 200 /\ fn.shape = "user_token") =>
        /\ fn.phase \in {"logged", "done"} => fn.token = fn.issued
        /\ fn.phase = "done" =>
              /\ fn.auth = Bearer(fn.issued)
              /\ ~fn.expired => (fn.ret = (fn.ingest = "true"))

\* C39: a video whose metadata fetch failed in the tick that found it new is
\* in Seen from the end of that tick on, has no Notified entry, and is passed
\* to add_video by no tick.
C39_FailedFetchIsNeverRetried ==
    \A v \in fn.failedFirst :
        /\ v \in fn.db.old
        /\ v \notin DOMAIN fn.db.notified
        /\ \A k \in 1..Len(fn.db.adds) : \A i \in 1..Len(fn.db.adds[k]) : fn.db.adds[k][i] # v

\* C40: once either child has exited, start_stream of ytbot.py eventually
\* returns, also when the re-muxer exits while the extractor still runs and
\* has output to write.
C40_StartStreamReturns ==
    (fn.streamlink = "exited" \/ fn.ffmpeg = "exited") ~> (fn.sup = "returned")
====
